---- MODULE Spec2Model ----
(***************************************************************************)
(* Model of whoop_sdk/auth.py: class AuthManager.                          *)
(*                                                                         *)
(* The state is the process environment, the two JSON files under          *)
(* ~/.whoop_sdk, and the fields of one AuthManager object.  Every public   *)
(* method is one action that runs the whole method body, including the     *)
(* helper calls it makes.  What the outside world supplies (lines typed    *)
(* at the console, the answer of the token endpoint, whether a file write  *)
(* succeeds) is chosen with \E from small sets.                            *)
(***************************************************************************)
EXTENDS Naturals, Sequences, FiniteSets, TLC

VARIABLES
    env,            \* os.environ restricted to the two WHOOP_* names
    settingsFile,   \* content of SETTINGS_PATH
    configFile,     \* content of CONFIG_PATH
    pc,             \* "new": no manager constructed; "ready": constructed
    client_id,      \* self.client_id
    client_secret,  \* self.client_secret
    redirect_uri,   \* self.redirect_uri
    tokens,         \* self.tokens
    last,           \* what the last call did: method, outcome, requests sent
    callers         \* two threads inside ensure_access_token at once

vars == <<env, settingsFile, configFile, pc, client_id, client_secret,
          redirect_uri, tokens, last, callers>>

(***************************************************************************)
(* Bounds.                                                                 *)
(***************************************************************************)
\* number of distinct non-empty token strings the token endpoint can issue
NTokens == 2

\* longest client id, in characters, whose authorization URL is built
MaxText == 2

(***************************************************************************)
(* Python values.                                                          *)
(***************************************************************************)
\* Python's None, as returned by os.getenv and dict.get for a missing name
None == "<None>"

\* the empty dict {}
EmptyMap == [k \in {} |-> ""]

\* bool(v) for v a string or None
Truthy(v) == v # None /\ v # ""

\* a or b
Or(a, b) == IF Truthy(a) THEN a ELSE b

\* d.get(k)
Get(d, k) == IF k \in DOMAIN d THEN d[k] ELSE None

\* bug: the emptiness test of line 60 lets every dict through
NonEmpty_Always(d) == TRUE

\* bool(d) for a dict d
NonEmpty(d) == DOMAIN d # {}

\* all dicts with keys among K whose value under k is in V[k]
Dicts(K, V) ==
    UNION { { f \in [S -> UNION {V[k] : k \in K}] : \A k \in S : f[k] \in V[k] }
            : S \in SUBSET K }

(***************************************************************************)
(* Class constants and the values of the model.                            *)
(***************************************************************************)
DEFAULT_REDIRECT == "https://www.google.com"

\* Text that goes into the authorization URL is a sequence of characters,
\* so that quoting can be done character by character.
\* "offline read:profile read:recovery read:sleep read:workout"
scopes ==
    <<"o", "f", "f", "l", "i", "n", "e", " ", "r", "e", "a", "d", ":",
      "p", "r", "o", "f", "i", "l", "e", " ", "r", "e", "a", "d", ":",
      "r", "e", "c", "o", "v", "e", "r", "y", " ", "r", "e", "a", "d",
      ":", "s", "l", "e", "e", "p", " ", "r", "e", "a", "d", ":", "w",
      "o", "r", "k", "o", "u", "t">>
\* "whoop_sdk_state_12345"
state ==
    <<"w", "h", "o", "o", "p", "_", "s", "d", "k", "_", "s", "t", "a",
      "t", "e", "_", "1", "2", "3", "4", "5">>

EnvNames == {"WHOOP_CLIENT_ID", "WHOOP_CLIENT_SECRET"}
EnvValues == [n \in EnvNames |-> {"env_v"}]
Environments == Dicts(EnvNames, EnvValues)

SettingKeys == {"client_id", "client_secret", "redirect_uri"}
SettingValues == [k \in SettingKeys |-> {"set_v"}]
SettingsDicts == Dicts(SettingKeys, SettingValues)

TokenKeys == {"access_token", "refresh_token"}
TokenStrings == {"t" \o ToString(i) : i \in 1..NTokens}
TokenValues ==
    [k \in TokenKeys |->
        CASE k = "access_token"  -> {""} \cup TokenStrings
          [] OTHER               -> TokenStrings]
TokenSets == Dicts(TokenKeys, TokenValues)

\* lines typed at the console, before .strip()
RawInputs == {"", " ", "in_v", " in_v "}
Codes == {"code1"}

\* str.strip() on the lines of RawInputs
Strip(s) ==
    CASE s = " "      -> ""
      [] s = " in_v " -> "in_v"
      [] OTHER        -> s

(***************************************************************************)
(* Files.  A file is absent, holds a JSON object, or holds the torn        *)
(* prefix a failed json.dump left behind after open(..., "w") truncated    *)
(* it.  text is what the file holds, the name/value pairs of the JSON      *)
(* object; data remembers the dict that was handed to json.dump.           *)
(***************************************************************************)
\* bug: members with an empty value are left out of the JSON text
Dump_DropsEmpty(d) == { <<k, d[k]>> : k \in {j \in DOMAIN d : d[j] # ""} }

\* json.dump: one name/value pair for every key of the dict
Dump(d) == { <<k, d[k]>> : k \in DOMAIN d }

\* json.load: the dict of the name/value pairs of the text
Load(t) == [k \in {p[1] : p \in t} |-> (CHOOSE p \in t : p[1] = k)[2]]

AbsentFile == [kind |-> "absent", data |-> EmptyMap, text |-> {}]
TornFile == [kind |-> "torn", data |-> EmptyMap, text |-> {}]
JsonFile(d) == [kind |-> "json", data |-> d, text |-> Dump(d)]

\* bug: the file is never found, every load gives {}
LoadJson_NotFound(f) == EmptyMap

\* _load_tokens, _load_settings on a file that is not torn: {} when the
\* file does not exist
LoadJson(f) == IF f.kind = "json" THEN Load(f.text) ELSE EmptyMap

\* bug: the save returns without having written
Written_Skipped(f, d, how) == f

\* How a write of d to file f can end: "ok", "unopened" (mkdir or open
\* raised: the file is as before) or "torn" (json.dump raised midway).
WriteResults == {"ok", "unopened", "torn"}
Written(f, d, how) ==
    CASE how = "ok"   -> JsonFile(d)
      [] how = "torn" -> TornFile
      [] OTHER        -> f

(***************************************************************************)
(* The token endpoint: an HTTP status and, for a success, a JSON object.   *)
(***************************************************************************)
Statuses == {200, 401}
Responses ==
    { [status |-> 200, body |-> b] : b \in TokenSets }
    \cup { [status |-> s, body |-> EmptyMap] : s \in Statuses \ {200} }

\* bug: only server errors (5xx) raise
RaisesForStatus_5xx(resp) == resp.status >= 500 /\ resp.status < 600

\* requests.Response.raise_for_status raises HTTPError for 4xx and 5xx
RaisesForStatus(resp) == resp.status >= 400 /\ resp.status < 600

NoResponse == [status |-> 0, body |-> EmptyMap]

\* bug: the response replaces the TokenSet instead of updating it
Merge_Replace(old, new) == new

\* dict.update: the keys of new take new's values, the other keys stay
Merge(old, new) ==
    [k \in DOMAIN old \cup DOMAIN new |->
        IF k \in DOMAIN new THEN new[k] ELSE old[k]]

\* What a call did: the method, "ok" or the exception it raised, the value
\* returned, the requests sent to TOKEN_URL, the endpoint's answer, the
\* response the raised HTTPError carries, whether the console was prompted.
\* replaced is the TokenSet a successful login put aside.
Outcome(op, out, ret, reqs, resp, carried, prompted) ==
    [op |-> op, out |-> out, ret |-> ret, reqs |-> reqs, resp |-> resp,
     carried |-> carried, prompted |-> prompted, replaced |-> EmptyMap]

NoCall == Outcome("none", "ok", None, << >>, NoResponse, NoResponse, FALSE)

\* The threads that call ensure_access_token on one manager.  at is the line
\* a thread stands before, data is its local payload (line 67), new its
\* local new_tokens (line 75); out and ret are how its call ended.  log is
\* the sequence of requests TOKEN_URL received and writes the sequence of
\* writes of CONFIG_PATH; held is the TokenSet the calls started with, first
\* the thread that moved first, and overlapped tells that a thread moved
\* while the other was inside its call.
Callers == {1, 2}
Other(c) == CHOOSE d \in Callers : d # c
NoCallers ==
    [at   |-> [c \in Callers |-> "none"],
     data |-> [c \in Callers |-> None],
     new  |-> [c \in Callers |-> EmptyMap],
     out  |-> [c \in Callers |-> "none"],
     ret  |-> [c \in Callers |-> None],
     log  |-> << >>, writes |-> << >>, held |-> EmptyMap,
     first |-> 0, overlapped |-> FALSE]

(***************************************************************************)
(* Initial state: no manager yet; the environment and the two files are    *)
(* whatever the user and earlier runs left.                                *)
(***************************************************************************)
Init ==
    /\ env \in Environments
    /\ settingsFile \in {AbsentFile} \cup {JsonFile(d) : d \in SettingsDicts}
    /\ configFile \in {AbsentFile} \cup {JsonFile(d) : d \in TokenSets}
    /\ pc = "new"
    /\ client_id = None
    /\ client_secret = None
    /\ redirect_uri = None
    /\ tokens = EmptyMap
    /\ last = NoCall
    /\ callers = NoCallers

(***************************************************************************)
(* __init__                                                                *)
(***************************************************************************)
\* lines 20-22: environment first, then the settings file
FromEnvAndSettings(e, s) ==
    [client_id     |-> Or(Get(e, "WHOOP_CLIENT_ID"), Get(s, "client_id")),
     client_secret |-> Or(Get(e, "WHOOP_CLIENT_SECRET"), Get(s, "client_secret")),
     redirect_uri  |-> Or(Get(s, "redirect_uri"), DEFAULT_REDIRECT)]

\* bug: the prompt runs on every construction
NeedsPrompt_Always(c) == TRUE

\* line 25
NeedsPrompt(c) == ~Truthy(c.client_id) \/ ~Truthy(c.client_secret)

\* lines 27-29: the three lines typed at the console
FromPrompt(c, a, b, r) ==
    [client_id     |-> Strip(a),
     client_secret |-> Strip(b),
     redirect_uri  |-> Or(Strip(r), DEFAULT_REDIRECT)]

\* lines 37-39, after the credentials c are settled
LoadTokens(c, prompted) ==
    IF configFile.kind = "torn"
    THEN /\ last' = Outcome("__init__", "JSONDecodeError", None, << >>,
                            NoResponse, NoResponse, prompted)
         /\ UNCHANGED <<pc, client_id, client_secret, redirect_uri, tokens>>
    ELSE /\ client_id' = c.client_id
         /\ client_secret' = c.client_secret
         /\ redirect_uri' = c.redirect_uri
         /\ tokens' = LoadJson(configFile)
         /\ pc' = "ready"
         /\ last' = Outcome("__init__", "ok", None, << >>, NoResponse,
                            NoResponse, prompted)

Construct ==
    /\ pc = "new"
    /\ UNCHANGED <<env, configFile, callers>>
    /\ IF settingsFile.kind = "torn"
       THEN /\ last' = Outcome("__init__", "JSONDecodeError", None, << >>,
                               NoResponse, NoResponse, FALSE)
            /\ UNCHANGED <<settingsFile, pc, client_id, client_secret, redirect_uri, tokens>>
       ELSE LET s == LoadJson(settingsFile)
                c == FromEnvAndSettings(env, s)
            IN  IF ~NeedsPrompt(c)
                THEN /\ UNCHANGED settingsFile
                     /\ LoadTokens(c, FALSE)
                ELSE \E a \in RawInputs, b \in RawInputs, r \in RawInputs,
                        how \in WriteResults :
                       LET p == FromPrompt(c, a, b, r)
                       IN  /\ settingsFile' = Written(settingsFile, p, how)
                           /\ IF how = "ok"
                              THEN LoadTokens(p, TRUE)
                              ELSE /\ last' = Outcome("__init__", "OSError",
                                                      None, << >>, NoResponse,
                                                      NoResponse, TRUE)
                                   /\ UNCHANGED <<pc, client_id, client_secret, redirect_uri, tokens>>

(***************************************************************************)
(* _build_auth_url                                                         *)
(***************************************************************************)
AUTH_URL == "https://api.prod.whoop.com/oauth/oauth2/auth"

\* the characters urllib.parse.quote_plus leaves as they are
Unreserved ==
    {"a", "b", "c", "d", "e", "f", "g", "h", "i", "j", "k", "l", "m",
     "n", "o", "p", "q", "r", "s", "t", "u", "v", "w", "x", "y", "z",
     "A", "B", "C", "D", "E", "F", "G", "H", "I", "J", "K", "L", "M",
     "N", "O", "P", "Q", "R", "S", "T", "U", "V", "W", "X", "Y", "Z",
     "0", "1", "2", "3", "4", "5", "6", "7", "8", "9", "_", ".", "-", "~"}

\* the two hexadecimal digits of a character that is percent-encoded
HexCode(c) ==
    CASE c = ":" -> <<"3", "A">>
      [] c = "/" -> <<"2", "F">>
      [] c = "&" -> <<"2", "6">>
      [] c = "=" -> <<"3", "D">>
      [] c = "+" -> <<"2", "B">>
      [] c = "%" -> <<"2", "5">>
      [] c = "?" -> <<"3", "F">>
      [] c = "#" -> <<"2", "3">>

\* bug: only the blank is replaced, nothing is percent-encoded
QuoteChar_BlankOnly(c) == IF c = " " THEN <<"+">> ELSE <<c>>

\* quote_plus on one character
QuoteChar(c) ==
    IF c \in Unreserved THEN <<c>>
    ELSE IF c = " " THEN <<"+">>
    ELSE <<"%">> \o HexCode(c)

RECURSIVE QuotePlus(_)
\* urllib.parse.quote_plus
QuotePlus(t) ==
    IF t = << >> THEN << >> ELSE QuoteChar(Head(t)) \o QuotePlus(Tail(t))

RECURSIVE UrlEncode(_)
\* urllib.parse.urlencode on a list of name/value pairs: name=value joined
\* by &
UrlEncode(params) ==
    IF params = << >> THEN << >>
    ELSE LET p == Head(params)
             field == QuotePlus(p[1]) \o <<"=">> \o QuotePlus(p[2])
         IN  IF Len(params) = 1 THEN field
             ELSE field \o <<"&">> \o UrlEncode(Tail(params))

\* "client_id", "response_type", "code", "redirect_uri", "scope", "state"
K_client_id == <<"c", "l", "i", "e", "n", "t", "_", "i", "d">>
K_response_type ==
    <<"r", "e", "s", "p", "o", "n", "s", "e", "_", "t", "y", "p", "e">>
K_code == <<"c", "o", "d", "e">>
K_redirect_uri == <<"r", "e", "d", "i", "r", "e", "c", "t", "_", "u", "r", "i">>
K_scope == <<"s", "c", "o", "p", "e">>
K_state == <<"s", "t", "a", "t", "e">>

\* lines 84-91: the URL is AUTH_URL, "?" and the encoded parameters
BuildAuthUrl(cid, ruri, scope, st) ==
    <<AUTH_URL, "?">>
    \o UrlEncode(<< <<K_client_id, cid>>,
                    <<K_response_type, K_code>>,
                    <<K_redirect_uri, ruri>>,
                    <<K_scope, scope>>,
                    <<K_state, st>> >>)

\* all texts of at most n characters of the set chars
TextsUpTo(chars, n) == UNION { [1..k -> chars] : k \in 0..n }

\* client ids whose URL is built: letters, and characters that have a
\* meaning inside a query string
ClientIdTexts == TextsUpTo({"a", " ", "&", "=", "%", "+"}, MaxText)

\* redirect URIs whose URL is built: blank, "h://g" and "h?#"
RedirectTexts == { << >>, <<"h", ":", "/", "/", "g">>, <<"h", "?", "#">> }

\* a manager whose client id and redirect URI are such texts
InitUrl ==
    /\ env = EmptyMap
    /\ settingsFile = AbsentFile
    /\ configFile = AbsentFile
    /\ pc = "ready"
    /\ client_id \in ClientIdTexts
    /\ client_secret = <<"s">>
    /\ redirect_uri \in RedirectTexts
    /\ tokens = EmptyMap
    /\ last = NoCall
    /\ callers = NoCallers

\* a call of _build_auth_url (line 46)
BuildAuthUrlCall ==
    /\ pc = "ready"
    /\ last' = Outcome("_build_auth_url", "ok",
                       BuildAuthUrl(client_id, redirect_uri, scopes, state),
                       << >>, NoResponse, NoResponse, FALSE)
    /\ UNCHANGED <<env, settingsFile, configFile, pc, client_id,
                   client_secret, redirect_uri, tokens, callers>>

NextUrl == BuildAuthUrlCall

SpecUrl == InitUrl /\ [][NextUrl]_vars

(***************************************************************************)
(* login                                                                   *)
(***************************************************************************)
\* bug: the client id is sent in the place of the client secret
ExchangeRequest_WrongSecret(code) ==
    [grant_type    |-> "authorization_code",
     code          |-> code,
     redirect_uri  |-> redirect_uri,
     client_id     |-> client_id,
     client_secret |-> client_id]

\* lines 94-100
ExchangeRequest(code) ==
    [grant_type    |-> "authorization_code",
     code          |-> code,
     redirect_uri  |-> redirect_uri,
     client_id     |-> client_id,
     client_secret |-> client_secret]

\* bug: login updates the old TokenSet as a refresh does
LoginTokens_Merged(old, body) ==
    [k \in DOMAIN old \cup DOMAIN body |->
        IF k \in DOMAIN body THEN body[k] ELSE old[k]]

\* lines 53-54 and 109: self.tokens becomes the dict the exchange returned
LoginTokens(old, body) == body

Login ==
    /\ pc = "ready"
    /\ UNCHANGED <<env, settingsFile, pc, client_id, client_secret, redirect_uri,
                   callers>>
    /\ \E code \in Codes, resp \in Responses :
          LET req == ExchangeRequest(Strip(code))
          IN  IF RaisesForStatus(resp)
              THEN /\ last' = Outcome("login", "HTTPError", None, <<req>>,
                                      resp, resp, FALSE)
                   /\ UNCHANGED <<configFile, tokens>>
              ELSE \E how \in WriteResults :
                     /\ configFile' = Written(configFile, resp.body, how)
                     /\ IF how = "ok"
                        THEN /\ tokens' = LoginTokens(tokens, resp.body)
                             /\ last' = [Outcome("login", "ok", None,
                                                 <<req>>, resp, NoResponse,
                                                 FALSE)
                                           EXCEPT !.replaced = tokens]
                        ELSE /\ UNCHANGED tokens
                             /\ last' = Outcome("login", "OSError", None,
                                                <<req>>, NoResponse,
                                                NoResponse, FALSE)

(***************************************************************************)
(* refresh_access_token and ensure_access_token                            *)
(***************************************************************************)
\* bug: the request is sent twice (a retry of the POST)
RefreshRequests_Twice(req) == <<req, req>>

\* line 73: one POST to TOKEN_URL
RefreshRequests(req) == <<req>>

\* lines 67-72
RefreshRequest ==
    [grant_type    |-> "refresh_token",
     refresh_token |-> tokens["refresh_token"],
     client_id     |-> client_id,
     client_secret |-> client_secret]

\* the body of refresh_access_token, run on behalf of method op
Refresh(op) ==
    IF "refresh_token" \notin DOMAIN tokens
    THEN /\ last' = Outcome(op, "KeyError", None, << >>, NoResponse,
                            NoResponse, FALSE)
         /\ UNCHANGED <<configFile, tokens>>
    ELSE \E resp \in Responses :
           LET req == RefreshRequest
               merged == Merge(tokens, resp.body)
           IN  IF RaisesForStatus(resp)
               THEN /\ last' = Outcome(op, "HTTPError", None,
                                       RefreshRequests(req), resp, resp, FALSE)
                    /\ UNCHANGED <<configFile, tokens>>
               ELSE \E how \in WriteResults :
                      /\ tokens' = merged
                      /\ configFile' = Written(configFile, merged, how)
                      /\ last' =
                           IF how # "ok"
                           THEN Outcome(op, "OSError", None,
                                        RefreshRequests(req), NoResponse,
                                        NoResponse, FALSE)
                           ELSE IF "access_token" \notin DOMAIN merged
                           THEN Outcome(op, "KeyError", None,
                                        RefreshRequests(req), resp,
                                        NoResponse, FALSE)
                           ELSE Outcome(op, "ok", merged["access_token"],
                                        RefreshRequests(req), resp,
                                        NoResponse, FALSE)

\* bug: the wrong key is read
CachedAccessToken_WrongKey(t) == Get(t, "refresh_token")

\* line 62: self.tokens.get("access_token")
CachedAccessToken(t) == Get(t, "access_token")

RefreshAccessToken ==
    /\ pc = "ready"
    /\ UNCHANGED <<env, settingsFile, pc, client_id, client_secret, redirect_uri,
                   callers>>
    /\ Refresh("refresh_access_token")

EnsureAccessToken ==
    /\ pc = "ready"
    /\ UNCHANGED <<env, settingsFile, pc, client_id, client_secret, redirect_uri,
                   callers>>
    /\ IF ~NonEmpty(tokens)
       THEN /\ last' = Outcome("ensure_access_token", "RuntimeError", None,
                               << >>, NoResponse, NoResponse, FALSE)
            /\ UNCHANGED <<configFile, tokens>>
       ELSE IF Truthy(CachedAccessToken(tokens))
       THEN /\ last' = Outcome("ensure_access_token", "ok",
                               CachedAccessToken(tokens), << >>, NoResponse,
                               NoResponse, FALSE)
            /\ UNCHANGED <<configFile, tokens>>
       ELSE Refresh("ensure_access_token")

(***************************************************************************)
(* The process ends; the next run constructs a new manager from the files. *)
(***************************************************************************)
Restart ==
    /\ pc = "ready"
    /\ pc' = "new"
    /\ client_id' = None
    /\ client_secret' = None
    /\ redirect_uri' = None
    /\ tokens' = EmptyMap
    /\ last' = NoCall
    /\ UNCHANGED <<env, settingsFile, configFile, callers>>

Next ==
    \/ Construct
    \/ Login
    \/ RefreshAccessToken
    \/ EnsureAccessToken
    \/ Restart

Spec == Init /\ [][Next]_vars

(***************************************************************************)
(* Two threads call ensure_access_token on one manager.  Nothing in the    *)
(* class takes a lock, so the threads interleave between the statements of *)
(* ensure_access_token and refresh_access_token; self.tokens is one dict   *)
(* both threads read and update in place.                                  *)
(***************************************************************************)
\* a constructed manager with its token file, both threads about to call
InitConc ==
    /\ env = [n \in EnvNames |-> "env_v"]
    /\ settingsFile = AbsentFile
    /\ pc = "ready"
    /\ client_id = "env_v"
    /\ client_secret = "env_v"
    /\ redirect_uri = DEFAULT_REDIRECT
    /\ tokens \in TokenSets
    /\ configFile = IF tokens = EmptyMap THEN AbsentFile ELSE JsonFile(tokens)
    /\ last = NoCall
    /\ callers = [NoCallers EXCEPT !.at = [c \in Callers |-> "l60"],
                                   !.held = tokens]

\* thread c moves: the first to move is noted, and so is a move made while
\* the other thread is inside its call
Moved(c, cs) ==
    [cs EXCEPT !.first = IF cs.first = 0 THEN c ELSE cs.first,
               !.overlapped = cs.overlapped
                              \/ callers.at[Other(c)] \notin {"l60", "done"}]

\* thread c's call ends with outcome out and value ret
Ended(c, out, ret) ==
    [callers EXCEPT !.at[c] = "done", !.out[c] = out, !.ret[c] = ret]

SharedUnchanged ==
    UNCHANGED <<env, settingsFile, pc, client_id, client_secret,
                redirect_uri, last>>

\* lines 60-61
EnsureCheck(c) ==
    /\ callers.at[c] = "l60"
    /\ callers' = Moved(c, IF ~NonEmpty(tokens)
                           THEN Ended(c, "RuntimeError", None)
                           ELSE [callers EXCEPT !.at[c] = "l62"])
    /\ SharedUnchanged
    /\ UNCHANGED <<tokens, configFile>>

\* line 62
EnsureCached(c) ==
    /\ callers.at[c] = "l62"
    /\ callers' = Moved(c, IF Truthy(CachedAccessToken(tokens))
                           THEN Ended(c, "ok", CachedAccessToken(tokens))
                           ELSE [callers EXCEPT !.at[c] = "l67"])
    /\ SharedUnchanged
    /\ UNCHANGED <<tokens, configFile>>

\* lines 67-72
BuildRequest(c) ==
    /\ callers.at[c] = "l67"
    /\ callers' = Moved(c, IF "refresh_token" \notin DOMAIN tokens
                           THEN Ended(c, "KeyError", None)
                           ELSE [callers EXCEPT !.at[c] = "l73",
                                                !.data[c] = RefreshRequest])
    /\ SharedUnchanged
    /\ UNCHANGED <<tokens, configFile>>

\* lines 73-75
Post(c) ==
    /\ callers.at[c] = "l73"
    /\ \E resp \in Responses :
          LET sent == [callers EXCEPT
                         !.log = @ \o RefreshRequests(callers.data[c])]
          IN  callers' =
                Moved(c, IF RaisesForStatus(resp)
                         THEN [sent EXCEPT !.at[c] = "done",
                                           !.out[c] = "HTTPError"]
                         ELSE [sent EXCEPT !.at[c] = "l76",
                                           !.new[c] = resp.body])
    /\ SharedUnchanged
    /\ UNCHANGED <<tokens, configFile>>

\* line 76
Update(c) ==
    /\ callers.at[c] = "l76"
    /\ tokens' = Merge(tokens, callers.new[c])
    /\ callers' = Moved(c, [callers EXCEPT !.at[c] = "l77"])
    /\ SharedUnchanged
    /\ UNCHANGED configFile

\* line 77 (_save_tokens, lines 105-109)
Save(c) ==
    /\ callers.at[c] = "l77"
    /\ \E how \in WriteResults :
          /\ configFile' = Written(configFile, tokens, how)
          /\ LET wrote == [callers EXCEPT
                             !.writes = Append(@, [by |-> c, data |-> tokens,
                                                   how |-> how])]
             IN  callers' =
                   Moved(c, IF how # "ok"
                            THEN [wrote EXCEPT !.at[c] = "done",
                                               !.out[c] = "OSError"]
                            ELSE [wrote EXCEPT !.at[c] = "l79"])
    /\ SharedUnchanged
    /\ UNCHANGED tokens

\* line 79
Return(c) ==
    /\ callers.at[c] = "l79"
    /\ callers' = Moved(c, IF "access_token" \notin DOMAIN tokens
                           THEN Ended(c, "KeyError", None)
                           ELSE Ended(c, "ok", tokens["access_token"]))
    /\ SharedUnchanged
    /\ UNCHANGED <<tokens, configFile>>

NextConc ==
    \E c \in Callers :
       \/ EnsureCheck(c)
       \/ EnsureCached(c)
       \/ BuildRequest(c)
       \/ Post(c)
       \/ Update(c)
       \/ Save(c)
       \/ Return(c)

SpecConc == InitConc /\ [][NextConc]_vars

(***************************************************************************)
(* Properties.  In an action formula the unprimed variables are the state  *)
(* a call started in and last' is the record of that call.                 *)
(***************************************************************************)
\* the call recorded in l went through refresh_access_token's POST
Refreshed(l) ==
    /\ l.op \in {"refresh_access_token", "ensure_access_token"}
    /\ l.reqs # << >>

\* C1: whenever self.tokens holds a non-empty access_token,
\* ensure_access_token returns exactly that value, sends no request to the
\* token endpoint and leaves the TokenSet in memory and on disk as it was;
\* this holds at every call.
C1_CachedTokenReturned ==
    [][ ( /\ pc = "ready"
          /\ "access_token" \in DOMAIN tokens
          /\ tokens["access_token"] # ""
          /\ last'.op = "ensure_access_token" )
        => ( /\ last'.out = "ok"
             /\ last'.ret = tokens["access_token"]
             /\ last'.reqs = << >>
             /\ tokens' = tokens
             /\ configFile' = configFile ) ]_vars

C1_Witness ==
    /\ last.op = "ensure_access_token"
    /\ last.out = "ok"
    /\ last.reqs = << >>
    /\ "access_token" \in DOMAIN tokens
    /\ last.ret = tokens["access_token"]
    /\ last.ret # ""

C3_NoTokenFails ==
    [][ ( pc = "ready" /\ tokens = EmptyMap )
        => ( /\ ( last'.op = "ensure_access_token"
                  => ( /\ last'.out = "RuntimeError"
                       /\ last'.reqs = << >>
                       /\ tokens' = tokens
                       /\ configFile' = configFile ) )
             /\ ( ( pc' = "ready" /\ ~(last'.op = "login" /\ last'.out = "ok") )
                  => tokens' = EmptyMap ) ) ]_vars

C3_Witness ==
    /\ pc = "ready"
    /\ last.op = "ensure_access_token"
    /\ last.out = "RuntimeError"
    /\ tokens = EmptyMap
    /\ configFile = AbsentFile

\* C4: after a refresh that returns, every key of the response has the
\* response's value in self.tokens, every other key of the old TokenSet has
\* its old value, and there are no other keys; so a refresh_token the
\* response omits is retained and one it carries is overwritten.
C4_RefreshMerges ==
    [][ ( pc = "ready" /\ Refreshed(last') /\ last'.out = "ok" )
        => LET body == last'.resp.body
           IN  /\ DOMAIN tokens' = DOMAIN tokens \cup DOMAIN body
               /\ \A k \in DOMAIN body : tokens'[k] = body[k]
               /\ \A k \in DOMAIN tokens \ DOMAIN body :
                     tokens'[k] = tokens[k] ]_vars

\* a refresh whose answer omitted refresh_token: the one sent is still held
C4_Witness ==
    /\ last.op = "refresh_access_token"
    /\ last.out = "ok"
    /\ Len(last.reqs) = 1
    /\ "refresh_token" \notin DOMAIN last.resp.body
    /\ "refresh_token" \in DOMAIN tokens
    /\ tokens["refresh_token"] = last.reqs[1].refresh_token
    /\ tokens["access_token"] = last.resp.body["access_token"]

\* C5: when the endpoint answers a refresh request with an error status
\* (4xx or 5xx), the call raises HTTPError (the spec's RefreshError), the
\* exception carries that response, and CONFIG_PATH holds after the call
\* what it held before.
C5_RejectedRefresh ==
    [][ ( pc = "ready" /\ Refreshed(last') /\ last'.resp.status >= 400 )
        => ( /\ last'.out = "HTTPError"
             /\ last'.carried = last'.resp
             /\ configFile' = configFile ) ]_vars

C5_Witness ==
    /\ last.op = "refresh_access_token"
    /\ last.out = "HTTPError"
    /\ Len(last.reqs) = 1
    /\ last.carried.status = 401
    /\ configFile.kind = "json"
    /\ "refresh_token" \in DOMAIN configFile.data

\* C6: login sends the authorization-code exchange whatever self.tokens
\* holds, and when it returns, self.tokens and CONFIG_PATH both hold
\* exactly the response: no key of the old TokenSet that the response lacks
\* is left.
C6_LoginReplaces ==
    [][ ( pc = "ready" /\ last'.op = "login" )
        => ( /\ Len(last'.reqs) = 1
             /\ last'.reqs[1].grant_type = "authorization_code"
             /\ ( last'.out = "ok"
                  => ( /\ tokens' = last'.resp.body
                       /\ configFile' = JsonFile(last'.resp.body)
                       /\ \A k \in DOMAIN tokens \ DOMAIN last'.resp.body :
                             k \notin DOMAIN tokens' ) ) ) ]_vars

\* a login over a TokenSet with a refresh_token, answered without one
C6_Witness ==
    /\ last.op = "login"
    /\ last.out = "ok"
    /\ "refresh_token" \in DOMAIN last.replaced
    /\ "refresh_token" \notin DOMAIN last.resp.body
    /\ "access_token" \in DOMAIN last.resp.body
    /\ tokens = last.resp.body
    /\ configFile = JsonFile(tokens)

\* C7: whenever a refresh has returned an access token v, CONFIG_PATH holds
\* the TokenSet that is in memory, and its access_token is v.
C7_PersistedBeforeReturn ==
    ( Refreshed(last) /\ last.out = "ok" )
    => ( /\ configFile = JsonFile(tokens)
         /\ "access_token" \in DOMAIN tokens
         /\ tokens["access_token"] = last.ret )

C7_Witness ==
    /\ last.op = "refresh_access_token"
    /\ last.out = "ok"
    /\ last.ret # ""
    /\ configFile = JsonFile(tokens)
    /\ tokens["access_token"] = last.ret
    /\ last.resp.body # tokens

\* a construction that returned: unprimed env and settingsFile are what it
\* found
Constructed(l) == l.op = "__init__" /\ l.out = "ok"

\* C8: when the environment and the settings file both supply a client id
\* (a client secret), the constructed manager holds the environment's value.
C8_EnvironmentWins ==
    [][ ( pc = "new" /\ Constructed(last') )
        => ( /\ ( ( /\ "WHOOP_CLIENT_ID" \in DOMAIN env
                    /\ "client_id" \in DOMAIN settingsFile.data )
                  => client_id' = env["WHOOP_CLIENT_ID"] )
             /\ ( ( /\ "WHOOP_CLIENT_SECRET" \in DOMAIN env
                    /\ "client_secret" \in DOMAIN settingsFile.data )
                  => client_secret' = env["WHOOP_CLIENT_SECRET"] ) ) ]_vars

\* C9: a client id, client secret or redirect URI that the environment or
\* the settings file supplied is the one the constructed manager holds (the
\* prompt fills only what is missing), and a redirect URI left blank at the
\* prompt becomes DEFAULT_REDIRECT.
C9_PromptOnlyMissing ==
    [][ ( pc = "new" /\ Constructed(last') )
        => LET s == settingsFile.data
           IN  /\ ( "WHOOP_CLIENT_ID" \in DOMAIN env
                    => client_id' = env["WHOOP_CLIENT_ID"] )
               /\ ( ( "WHOOP_CLIENT_ID" \notin DOMAIN env
                      /\ "client_id" \in DOMAIN s )
                    => client_id' = s["client_id"] )
               /\ ( "WHOOP_CLIENT_SECRET" \in DOMAIN env
                    => client_secret' = env["WHOOP_CLIENT_SECRET"] )
               /\ ( ( "WHOOP_CLIENT_SECRET" \notin DOMAIN env
                      /\ "client_secret" \in DOMAIN s )
                    => client_secret' = s["client_secret"] )
               /\ ( "redirect_uri" \in DOMAIN s
                    => redirect_uri' = s["redirect_uri"] )
               /\ redirect_uri' # "" ]_vars

\* client id and client secret are both found in the environment or in the
\* settings file
Resolvable ==
    /\ \/ Truthy(Get(env, "WHOOP_CLIENT_ID"))
       \/ Truthy(Get(settingsFile.data, "client_id"))
    /\ \/ Truthy(Get(env, "WHOOP_CLIENT_SECRET"))
       \/ Truthy(Get(settingsFile.data, "client_secret"))

\* C10: a construction writes SETTINGS_PATH exactly when it prompted: with
\* client id and secret resolvable it does not prompt and leaves the file
\* as it was; one that prompted and returned has stored the triple the
\* manager holds; and once the manager is constructed no method changes
\* the file.  (A construction that cannot parse the file ends before it
\* resolves anything.)
C10_SettingsWrittenOnlyByPrompt ==
    [][ /\ ( ( pc = "new" /\ last'.op = "__init__" )
             => ( /\ ( settingsFile.kind # "torn"
                       => ( Resolvable <=> ~last'.prompted ) )
                  /\ ( ~last'.prompted => settingsFile' = settingsFile )
                  /\ ( ( last'.prompted /\ last'.out = "ok" )
                       => settingsFile' =
                            JsonFile([client_id     |-> client_id',
                                      client_secret |-> client_secret',
                                      redirect_uri  |-> redirect_uri']) ) ) )
        /\ ( pc = "ready" => settingsFile' = settingsFile ) ]_vars

\* a construction that prompted over an existing settings file
C10_Witness ==
    /\ pc = "ready"
    /\ last.op = "__init__"
    /\ last.prompted
    /\ client_id = "in_v"
    /\ settingsFile = JsonFile([client_id     |-> client_id,
                                client_secret |-> client_secret,
                                redirect_uri  |-> redirect_uri])

C12_CredentialsFixed ==
    [][ ( pc = "ready" /\ pc' = "ready" )
        => ( /\ client_id' = client_id
             /\ client_secret' = client_secret
             /\ redirect_uri' = redirect_uri
             /\ \A i \in 1..Len(last'.reqs) :
                   /\ last'.reqs[i].client_id = client_id
                   /\ last'.reqs[i].client_secret = client_secret ) ]_vars

C12_Witness ==
    /\ pc = "ready"
    /\ last.op = "login"
    /\ last.out = "HTTPError"
    /\ Len(last.reqs) = 1
    /\ client_id = "env_v"
    /\ client_secret = "set_v"
    /\ last.reqs[1].client_id = client_id
    /\ last.reqs[1].client_secret = client_secret

(***************************************************************************)
(* Reading a query string back (what urllib.parse.parse_qsl does, blank    *)
(* values kept).                                                           *)
(***************************************************************************)
\* the j-th smallest number of the set S
Nth(S, j) == CHOOSE i \in S : Cardinality({k \in S : k <= i}) = j

\* the pieces of t between the separators sep
Split(t, sep) ==
    LET seps == {i \in 1..Len(t) : t[i] = sep}
        n == Cardinality(seps)
        From(j) == IF j = 1 THEN 1 ELSE Nth(seps, j - 1) + 1
        To(j) == IF j = n + 1 THEN Len(t) ELSE Nth(seps, j) - 1
    IN  [j \in 1..(n + 1) |-> SubSeq(t, From(j), To(j))]

\* t up to its first sep
Before(t, sep) ==
    LET seps == {i \in 1..Len(t) : t[i] = sep}
    IN  IF seps = {} THEN t ELSE SubSeq(t, 1, Nth(seps, 1) - 1)

\* t after its first sep
After(t, sep) ==
    LET seps == {i \in 1..Len(t) : t[i] = sep}
    IN  IF seps = {} THEN << >> ELSE SubSeq(t, Nth(seps, 1) + 1, Len(t))

PercentEncoded == {":", "/", "&", "=", "+", "%", "?", "#"}

\* + is a blank, %XX is the character with that code, anything else is
\* itself
UnquotePlus(t) ==
    LET Escape(i) ==
            /\ i >= 1
            /\ i + 2 <= Len(t)
            /\ t[i] = "%"
            /\ \E c \in PercentEncoded : HexCode(c) = <<t[i + 1], t[i + 2]>>
        starts == {i \in 1..Len(t) : ~Escape(i - 1) /\ ~Escape(i - 2)}
    IN  [j \in 1..Cardinality(starts) |->
            LET i == Nth(starts, j)
            IN  IF Escape(i)
                THEN CHOOSE c \in PercentEncoded :
                        HexCode(c) = <<t[i + 1], t[i + 2]>>
                ELSE IF t[i] = "+" THEN " " ELSE t[i]]

\* the name/value pairs of a query string
ParseQsl(q) ==
    LET fields == Split(q, "&")
    IN  [i \in 1..Len(fields) |->
            <<UnquotePlus(Before(fields[i], "=")),
              UnquotePlus(After(fields[i], "="))>>]

\* C13: _build_auth_url sends nothing to the token endpoint, and the URL it
\* returns is AUTH_URL, "?" and a query string that reads back as exactly
\* the five parameters client_id, response_type=code, redirect_uri, scope
\* and state, with the manager's values, whatever characters they hold.
C13_AuthUrlDecodes ==
    last.op = "_build_auth_url"
    => ( /\ last.reqs = << >>
         /\ last.ret[1] = AUTH_URL
         /\ last.ret[2] = "?"
         /\ ParseQsl(SubSeq(last.ret, 3, Len(last.ret)))
              = << <<K_client_id, client_id>>,
                   <<K_response_type, K_code>>,
                   <<K_redirect_uri, redirect_uri>>,
                   <<K_scope, scopes>>,
                   <<K_state, state>> >> )

\* a URL built for a client id that holds & and =
C13_Witness ==
    /\ last.op = "_build_auth_url"
    /\ client_id = <<"&", "=">>
    /\ redirect_uri = <<"h", ":", "/", "/", "g">>
    /\ SubSeq(last.ret, 3, 18)
         = K_client_id \o <<"=", "%", "2", "6", "%", "3", "D">>

\* C14: a call sends at most one request to the token endpoint; the
\* request of ensure_access_token and refresh_access_token is a
\* refresh_token grant and never the authorization-code exchange of login;
\* and a refresh the endpoint rejects ends the call with HTTPError.
C14_NoRetry ==
    /\ Len(last.reqs) <= 1
    /\ ( last.op \in {"refresh_access_token", "ensure_access_token"}
         => ( /\ ~last.prompted
              /\ \A i \in 1..Len(last.reqs) :
                    last.reqs[i].grant_type = "refresh_token" ) )
    /\ ( last.op = "login"
         => \A i \in 1..Len(last.reqs) :
               last.reqs[i].grant_type = "authorization_code" )
    /\ ( ( Refreshed(last) /\ last.resp.status >= 400 )
         => last.out = "HTTPError" )

C14_Witness ==
    /\ last.op = "ensure_access_token"
    /\ last.out = "HTTPError"
    /\ last.resp.status = 401
    /\ Len(last.reqs) = 1
    /\ last.reqs[1].grant_type = "refresh_token"

\* C15: when the endpoint rejects the code exchange, login raises HTTPError
\* (the spec's AuthorizationError) carrying that response, and self.tokens
\* and CONFIG_PATH are what they were before the call; an access token
\* held before is what the next ensure_access_token returns.
C15_RejectedLogin ==
    [][ /\ ( ( pc = "ready" /\ last'.op = "login" /\ last'.resp.status >= 400 )
             => ( /\ last'.out = "HTTPError"
                  /\ last'.carried = last'.resp
                  /\ tokens' = tokens
                  /\ configFile' = configFile ) )
        /\ ( ( /\ pc = "ready"
               /\ last.op = "login"
               /\ last.out = "HTTPError"
               /\ "access_token" \in DOMAIN tokens
               /\ tokens["access_token"] # ""
               /\ last'.op = "ensure_access_token" )
             => ( /\ last'.out = "ok"
                  /\ last'.ret = tokens["access_token"] ) ) ]_vars

C15_Witness ==
    /\ last.op = "login"
    /\ last.out = "HTTPError"
    /\ last.carried.status = 401
    /\ "access_token" \in DOMAIN tokens
    /\ tokens["access_token"] # ""
    /\ configFile = JsonFile(tokens)

\* the first call on a manager that has just been constructed is
\* ensure_access_token; unprimed configFile is the token store it loaded
FirstEnsure ==
    pc = "ready" /\ Constructed(last) /\ last'.op = "ensure_access_token"

\* C16 as stated: with an empty token store the manager starts in NO_TOKEN,
\* and with any non-empty stored TokenSet the first ensure_access_token
\* returns the stored access token without a request.
C16_InitialState ==
    [][ FirstEnsure
        => IF configFile.data = EmptyMap
           THEN last'.out = "RuntimeError"
           ELSE /\ last'.out = "ok"
                /\ last'.reqs = << >>
                /\ "access_token" \in DOMAIN configFile.data
                /\ last'.ret = configFile.data["access_token"] ]_vars

\* C16 as amended: with an empty token store the first ensure_access_token
\* raises RuntimeError (NO_TOKEN); with a stored TokenSet that holds a
\* non-empty access_token it returns that token without a request
\* (HAS_ACCESS); with a stored TokenSet that holds a refresh_token and no
\* access_token it sends one refresh request (NEEDS_REFRESH).
C16_InitialStateAmended ==
    [][ FirstEnsure
        => LET d == configFile.data
           IN  /\ ( d = EmptyMap
                    => last'.out = "RuntimeError" /\ last'.reqs = << >> )
               /\ ( ( "access_token" \in DOMAIN d /\ d["access_token"] # "" )
                    => ( /\ last'.out = "ok"
                         /\ last'.reqs = << >>
                         /\ last'.ret = d["access_token"] ) )
               /\ ( ( /\ "refresh_token" \in DOMAIN d
                      /\ ("access_token" \in DOMAIN d => d["access_token"] = "") )
                    => ( /\ Len(last'.reqs) = 1
                         /\ last'.reqs[1].refresh_token = d["refresh_token"] ) )
      ]_vars

\* a manager constructed over a stored TokenSet with both tokens
C16_Witness ==
    /\ pc = "ready"
    /\ Constructed(last)
    /\ configFile.kind = "json"
    /\ DOMAIN configFile.data = {"access_token", "refresh_token"}
    /\ configFile.data["access_token"] # ""
    /\ tokens = configFile.data
\* the scenario of C17: the manager holds a refresh_token and no access_token
NeedsRefresh(t) ==
    "refresh_token" \in DOMAIN t /\ ~Truthy(CachedAccessToken(t))

BothDone == \A c \in Callers : callers.at[c] = "done"

Serialized == BothDone /\ ~callers.overlapped

\* both writes of the token file succeeded
BothWrote ==
    /\ Len(callers.writes) = 2
    /\ \A i \in 1..2 : callers.writes[i].how = "ok"

\* C17 as stated: on a manager that holds a refresh_token and no
\* access_token, two serialized calls of ensure_access_token send exactly
\* one refresh request in total.
C17_SerializedOneRequest ==
    ( Serialized /\ NeedsRefresh(callers.held) ) => Len(callers.log) = 1

\* C17: on a manager that holds a refresh_token and no access_token, two
\* serialized calls of ensure_access_token send exactly one refresh request
\* in total when the first call returns a non-empty access token; the
\* second call sends no request then and returns the cached token.  Without
\* serialization each thread sends at most one request, and when both
\* writes of the token file succeed the file holds what the later one wrote.
C17_NoLocking ==
    /\ ( /\ Serialized
         /\ NeedsRefresh(callers.held)
         /\ callers.out[callers.first] = "ok"
         /\ Truthy(callers.ret[callers.first]) )
       => ( Len(callers.log) = 1
            /\ callers.out[Other(callers.first)] = "ok" )
    /\ Len(callers.log) <= 2
    /\ ( BothDone /\ BothWrote )
       => ( configFile.kind = "json"
            /\ configFile.data = callers.writes[2].data )

\* the race: both threads sent a request with the same refresh_token, and
\* the later write of the token file replaced what the earlier one wrote
C17_Witness ==
    /\ BothDone /\ callers.overlapped /\ NeedsRefresh(callers.held)
    /\ Len(callers.log) = 2
    /\ callers.log[1].refresh_token = callers.log[2].refresh_token
    /\ BothWrote
    /\ callers.writes[1].by # callers.writes[2].by
    /\ callers.writes[1].data # callers.writes[2].data
    /\ configFile.data = callers.writes[2].data
    /\ \A c \in Callers : callers.out[c] = "ok" /\ Truthy(callers.ret[c])

\* C18: whenever no call is in progress on a constructed manager, the
\* TokenSet in memory equals the TokenSet on disk (the empty mapping for an
\* absent file), also after a call that ended in an error.  A file that a
\* failed write left unreadable is not compared.
C18_MemoryEqualsDisk ==
    ( pc = "ready" /\ configFile.kind # "torn" )
       => tokens = LoadJson(configFile)

\* the outcomes the error taxonomy names: NotAuthenticatedError is the
\* RuntimeError of line 61, RefreshError and AuthorizationError the
\* HTTPError of raise_for_status, StorageError the OSError of a write
Documented == {"ok", "RuntimeError", "HTTPError", "OSError"}

\* C19: the TokenSet held after a successful login or refresh_access_token
\* contains access_token and refresh_token, and ensure_access_token on a
\* non-empty TokenSet returns an access token or ends with an error of the
\* taxonomy.
C19_UsableTokenSet ==
    [][ /\ ( last'.op \in {"login", "refresh_access_token"}
             /\ last'.out = "ok" )
           => {"access_token", "refresh_token"} \subseteq DOMAIN tokens'
        /\ ( last'.op = "ensure_access_token" /\ NonEmpty(tokens) )
           => last'.out \in Documented ]_vars

\* C20: when construction completes without an error, client_id,
\* client_secret and redirect_uri are all non-empty; credentials that cannot
\* be obtained end in an error instead, and a triple with an empty member is
\* never written to the settings file.
C20_CompleteCredentials ==
    [][ /\ Constructed(last')
           => ( Truthy(client_id') /\ Truthy(client_secret')
                /\ Truthy(redirect_uri') )
        /\ ( last'.op = "__init__" /\ settingsFile' # settingsFile
             /\ settingsFile'.kind = "json" )
           => \A k \in DOMAIN settingsFile'.data :
                 Truthy(settingsFile'.data[k]) ]_vars

====
